---------------------------- MODULE Spec2Model ----------------------------
(***************************************************************************)
(* Model of the ChordPro format engine, server/services/chordpro.py        *)
(* (class ChordProService).                                                *)
(*                                                                         *)
(* Text is a sequence of tokens.  The tokens "{", "}", ":", "[", "]",      *)
(* " " and "\n" are the single characters the code looks at; every other   *)
(* token (a word such as "title", "soc", "x", a digit) stands for a fixed  *)
(* non-empty run of characters with none of those in it.  No directive     *)
(* name the code compares against is the concatenation of two or more of   *)
(* the words used here, so comparing names token-wise is comparing the     *)
(* strings.  A Python Optional is a sequence of length at most one:        *)
(* None is <<>> and a value v is <<v>>.                                    *)
(***************************************************************************)
EXTENDS Integers, Sequences, FiniteSets, TLC

VARIABLES
    content,      \* the document handed to the engine
    title,        \* inject_metadata's optional title
    artist,       \* inject_metadata's optional artist
    capo,         \* inject_metadata's optional capo
    key,          \* inject_metadata's optional key
    op,           \* the engine call made last
    result,       \* Optional: inject_metadata(content, ...)
    again,        \* Optional: inject_metadata(result, ...) with the same values
    metadata,     \* Optional: extract_metadata(result)
    lines,        \* validate: content.split('\n')
    line_num,     \* validate: number of the line examined last
    open_blocks,  \* validate: the block stack
    verdict,      \* Optional: validate's return value
    cleaned,      \* Optional: clean_content(content)
    cleaned_verdict,  \* Optional: validate(cleaned)
    segments,     \* Optional: parse_line(content)
    songs,        \* the rows of table songs, Song.id being the row's index
    versions,     \* the rows of table song_versions, oldest first
    calls,        \* the arguments of the SongsService calls made, in order
    raised,       \* Optional: the message of the ValueError the last call raised
    threads       \* the locals of the validate calls that run side by side

\* what the calls of ChordProService on a text leave behind
engine == <<result, again, metadata, lines, line_num, open_blocks, verdict>>

\* what clean_content and parse_line leave behind
texts == <<cleaned, cleaned_verdict, segments>>

\* the database and the SongsService calls made
store == <<songs, versions, calls, raised>>

vars == <<content, title, artist, capo, key, op, result, again, metadata,
          lines, line_num, open_blocks, verdict, cleaned, cleaned_verdict,
          segments, songs, versions, calls, raised, threads>>

-----------------------------------------------------------------------------
(* Bounds of the model.                                                    *)

MaxLines == 3

\* the most pieces a text given to clean_content is made of
MaxPieces == 4

\* the most calls made to SongsService
MaxCalls == 2

-----------------------------------------------------------------------------
(* Python values and string primitives.                                    *)

None == <<>>

Some(v) == <<v>>

\* bool(s) of an Optional[str]: neither None nor the empty string
Truthy(o) == o # None /\ o[1] # <<>>

NL == "\n"

\* the characters str.strip() removes
IsSpace(c) == c \in {" ", "\n", "\t", "\r"}

\* bool(s.strip())
strip(s) == \E i \in 1..Len(s) : ~IsSpace(s[i])

\* s.count(c)
count(s, c) == Cardinality({i \in 1..Len(s) : s[i] = c})

RECURSIVE split_from(_, _, _)
split_from(s, i, cur) ==
    IF i > Len(s) THEN <<cur>>
    ELSE IF s[i] = NL THEN <<cur>> \o split_from(s, i + 1, <<>>)
    ELSE split_from(s, i + 1, Append(cur, s[i]))

\* s.split('\n')
split(s) == split_from(s, 1, <<>>)

RECURSIVE join(_)
\* '\n'.join(ls)
join(ls) ==
    IF ls = <<>> THEN <<>>
    ELSE IF Len(ls) = 1 THEN ls[1]
    ELSE ls[1] \o <<NL>> \o join(Tail(ls))

RECURSIVE digits(_)
digits(n) ==
    LET d == <<"0", "1", "2", "3", "4", "5", "6", "7", "8", "9">>[(n % 10) + 1]
    IN  IF n < 10 THEN <<d>> ELSE digits(n \div 10) \o <<d>>

\* str(n) of an int, as f"{capo}" formats it
str(n) == IF n < 0 THEN <<"-">> \o digits(-n) ELSE digits(n)

-----------------------------------------------------------------------------
\* DIRECTIVE_REGEX: an opening brace, a name, optionally a colon and a
\* value, a closing brace

RECURSIVE FirstIn(_, _, _)
\* the least j >= from with s[j] in chars, 0 when there is none
FirstIn(s, from, chars) ==
    IF from > Len(s) THEN 0
    ELSE IF s[from] \in chars THEN from
    ELSE FirstIn(s, from + 1, chars)

NoMatch == [ok |-> FALSE, name |-> <<>>, value |-> <<>>, end |-> 0]

\* DIRECTIVE_REGEX matched at position i of s.  The name is the longest run
\* of characters other than ":" and "}", and is not empty; a "}" right after
\* it ends the match with no value; a ":" starts the value, which runs to
\* the next "}", and without such a "}" nothing matches at i.
match_at(s, i) ==
    IF s[i] # "{" THEN NoMatch
    ELSE LET j == FirstIn(s, i + 1, {":", "}"})
         IN  IF j = 0 \/ j = i + 1 THEN NoMatch
             ELSE IF s[j] = "}"
             THEN [ok |-> TRUE, name |-> SubSeq(s, i + 1, j - 1),
                   value |-> <<>>, end |-> j]
             ELSE LET k == FirstIn(s, j + 1, {"}"})
                  IN  IF k = 0 THEN NoMatch
                      ELSE [ok |-> TRUE, name |-> SubSeq(s, i + 1, j - 1),
                            value |-> SubSeq(s, j + 1, k - 1), end |-> k]

RECURSIVE findall_from(_, _)
findall_from(s, i) ==
    IF i > Len(s) THEN <<>>
    ELSE LET m == match_at(s, i)
         IN  IF m.ok
             THEN <<[name |-> m.name, value |-> m.value, start |-> i,
                     end |-> m.end]>> \o findall_from(s, m.end + 1)
             ELSE findall_from(s, i + 1)

\* DIRECTIVE_REGEX_findall with a slip: the spaces of a name are dropped
DIRECTIVE_REGEX_findall_stripped(s) ==
    LET ms == findall_from(s, 1)
    IN  [i \in 1..Len(ms) |->
            [ms[i] EXCEPT !.name = SelectSeq(@, LAMBDA c : c # " ")]]

\* DIRECTIVE_REGEX.findall(s): the non-overlapping matches, left to right
\* (start and end are the match's span, as finditer gives it)
DIRECTIVE_REGEX_findall(s) == findall_from(s, 1)

-----------------------------------------------------------------------------
(* inject_metadata                                                         *)

\* f"{{name:{value}}}"
directive_line(name, value) == <<"{", name, ":">> \o value \o <<"}">>

\* inject_directive with a slip: a title that is present but empty rewrites
\* the line too ("is not None" where the code tests the string itself)
inject_directive_present(st, directive, t, a, c, k) ==
    IF directive \in {<<"title">>, <<"t">>}
    THEN [line |-> IF t # None THEN directive_line("title", t[1]) ELSE st.line,
          is_metadata |-> TRUE,
          found |-> [st.found EXCEPT !.title = TRUE]]
    ELSE IF directive \in {<<"artist">>, <<"a">>}
    THEN [line |-> IF Truthy(a) THEN directive_line("artist", a[1]) ELSE st.line,
          is_metadata |-> TRUE,
          found |-> [st.found EXCEPT !.artist = TRUE]]
    ELSE IF directive = <<"capo">>
    THEN [line |-> IF c # None THEN directive_line("capo", str(c[1])) ELSE st.line,
          is_metadata |-> TRUE,
          found |-> [st.found EXCEPT !.capo = TRUE]]
    ELSE IF directive = <<"key">>
    THEN [line |-> IF Truthy(k) THEN directive_line("key", k[1]) ELSE st.line,
          is_metadata |-> TRUE,
          found |-> [st.found EXCEPT !.key = TRUE]]
    ELSE st

\* one turn of the loop over a line's directives (lines 138-158): st is
\* [line, is_metadata, found]
inject_directive(st, directive, t, a, c, k) ==
    IF directive \in {<<"title">>, <<"t">>}
    THEN [line |-> IF Truthy(t) THEN directive_line("title", t[1]) ELSE st.line,
          is_metadata |-> TRUE,
          found |-> [st.found EXCEPT !.title = TRUE]]
    ELSE IF directive \in {<<"artist">>, <<"a">>}
    THEN [line |-> IF Truthy(a) THEN directive_line("artist", a[1]) ELSE st.line,
          is_metadata |-> TRUE,
          found |-> [st.found EXCEPT !.artist = TRUE]]
    ELSE IF directive = <<"capo">>
    THEN [line |-> IF c # None THEN directive_line("capo", str(c[1])) ELSE st.line,
          is_metadata |-> TRUE,
          found |-> [st.found EXCEPT !.capo = TRUE]]
    ELSE IF directive = <<"key">>
    THEN [line |-> IF Truthy(k) THEN directive_line("key", k[1]) ELSE st.line,
          is_metadata |-> TRUE,
          found |-> [st.found EXCEPT !.key = TRUE]]
    ELSE st

RECURSIVE inject_directives(_, _, _, _, _, _, _)
\* the loop over the directives found on the line as it was read
inject_directives(st, ds, n, t, a, c, k) ==
    IF n > Len(ds) THEN st
    ELSE inject_directives(inject_directive(st, ds[n].name, t, a, c, k),
                           ds, n + 1, t, a, c, k)

\* inject_line with a slip: a blank line is not kept among the content lines
inject_line_skip_blank(acc, line, t, a, c, k) ==
    LET st == inject_directives(
                  [line |-> line, is_metadata |-> FALSE,
                   found |-> acc.metadata_found],
                  DIRECTIVE_REGEX_findall(line), 1, t, a, c, k)
    IN  IF st.is_metadata
        THEN [metadata_lines |-> Append(acc.metadata_lines, st.line),
              content_lines |-> acc.content_lines,
              metadata_found |-> st.found]
        ELSE [metadata_lines |-> acc.metadata_lines,
              content_lines |-> IF strip(st.line)
                                THEN Append(acc.content_lines, st.line)
                                ELSE acc.content_lines,
              metadata_found |-> st.found]

\* one turn of the loop over the lines (lines 134-163): acc is
\* [metadata_lines, content_lines, metadata_found]
inject_line(acc, line, t, a, c, k) ==
    LET st == inject_directives(
                  [line |-> line, is_metadata |-> FALSE,
                   found |-> acc.metadata_found],
                  DIRECTIVE_REGEX_findall(line), 1, t, a, c, k)
    IN  IF st.is_metadata
        THEN [metadata_lines |-> Append(acc.metadata_lines, st.line),
              content_lines |-> acc.content_lines,
              metadata_found |-> st.found]
        ELSE [metadata_lines |-> acc.metadata_lines,
              content_lines |-> Append(acc.content_lines, st.line),
              metadata_found |-> st.found]

RECURSIVE inject_lines(_, _, _, _, _, _, _)
inject_lines(acc, ls, n, t, a, c, k) ==
    IF n > Len(ls) THEN acc
    ELSE inject_lines(inject_line(acc, ls[n], t, a, c, k), ls, n + 1, t, a, c, k)

\* new_metadata with a slip: capo tested as the strings are ("if capo"), so
\* that capo 0 adds no line
new_metadata_capo_truthy(found, t, a, c, k) ==
    (IF Truthy(t) /\ ~found.title THEN <<directive_line("title", t[1])>> ELSE <<>>)
    \o (IF Truthy(a) /\ ~found.artist THEN <<directive_line("artist", a[1])>> ELSE <<>>)
    \o (IF c # None /\ c # Some(0) /\ ~found.capo
        THEN <<directive_line("capo", str(c[1]))>> ELSE <<>>)
    \o (IF Truthy(k) /\ ~found.key THEN <<directive_line("key", k[1])>> ELSE <<>>)

\* lines 165-174: the directives added for the fields not found
new_metadata(found, t, a, c, k) ==
    (IF Truthy(t) /\ ~found.title THEN <<directive_line("title", t[1])>> ELSE <<>>)
    \o (IF Truthy(a) /\ ~found.artist THEN <<directive_line("artist", a[1])>> ELSE <<>>)
    \o (IF c # None /\ ~found.capo THEN <<directive_line("capo", str(c[1]))>> ELSE <<>>)
    \o (IF Truthy(k) /\ ~found.key THEN <<directive_line("key", k[1])>> ELSE <<>>)

\* combine with a slip: the lines found in the document are put before the
\* lines added
combine_found_first(new, metadata_lines, content_lines) ==
    LET head == metadata_lines \o new
        sep == IF head # <<>> /\ content_lines # <<>>
                  /\ \E i \in 1..Len(content_lines) : strip(content_lines[i])
               THEN <<<<>>>> ELSE <<>>
    IN  join(head \o sep \o content_lines)

\* lines 176-187
combine(new, metadata_lines, content_lines) ==
    LET head == new \o metadata_lines
        sep == IF head # <<>> /\ content_lines # <<>>
                  /\ \E i \in 1..Len(content_lines) : strip(content_lines[i])
               THEN <<<<>>>> ELSE <<>>
    IN  join(head \o sep \o content_lines)

inject_metadata(text, t, a, c, k) ==
    LET acc == inject_lines(
                   [metadata_lines |-> <<>>, content_lines |-> <<>>,
                    metadata_found |-> [title |-> FALSE, artist |-> FALSE,
                                        capo |-> FALSE, key |-> FALSE]],
                   split(text), 1, t, a, c, k)
    IN  combine(new_metadata(acc.metadata_found, t, a, c, k),
                acc.metadata_lines, acc.content_lines)

-----------------------------------------------------------------------------
(* extract_metadata                                                        *)

IsDigit(c) == c \in {"0", "1", "2", "3", "4", "5", "6", "7", "8", "9"}

DigitValue(c) ==
    CASE c = "0" -> 0 [] c = "1" -> 1 [] c = "2" -> 2 [] c = "3" -> 3
      [] c = "4" -> 4 [] c = "5" -> 5 [] c = "6" -> 6 [] c = "7" -> 7
      [] c = "8" -> 8 [] c = "9" -> 9

RECURSIVE lstrip(_)
lstrip(s) == IF s # <<>> /\ IsSpace(s[1]) THEN lstrip(Tail(s)) ELSE s

RECURSIVE rstrip(_)
\* s.rstrip()
rstrip(s) ==
    IF s # <<>> /\ IsSpace(s[Len(s)]) THEN rstrip(SubSeq(s, 1, Len(s) - 1)) ELSE s

RECURSIVE number(_, _)
number(ds, acc) ==
    IF ds = <<>> THEN acc ELSE number(Tail(ds), 10 * acc + DigitValue(ds[1]))

\* int(s): the integer s spells (white space around it and a sign before
\* its digits allowed) as Some(n), None where int() raises ValueError
int(s) ==
    LET body == rstrip(lstrip(s))
        signed == body # <<>> /\ body[1] \in {"-", "+"}
        ds == IF signed THEN Tail(body) ELSE body
    IN  IF ds = <<>> \/ \E i \in 1..Len(ds) : ~IsDigit(ds[i]) THEN None
        ELSE Some(IF signed /\ body[1] = "-" THEN 0 - number(ds, 0)
                  ELSE number(ds, 0))

\* extract_directive with a slip: the title is read from {t:...} only
extract_directive_alias_only(md, directive, value) ==
    IF directive = <<"t">> THEN [md EXCEPT !.title = Some(value)]
    ELSE IF directive \in {<<"artist">>, <<"a">>} THEN [md EXCEPT !.artist = Some(value)]
    ELSE IF directive = <<"capo">>
    THEN [md EXCEPT !.capo =
              IF value = <<>> THEN Some(0)
              ELSE IF int(value) = None THEN Some(0) ELSE int(value)]
    ELSE IF directive = <<"key">> THEN [md EXCEPT !.key = Some(value)]
    ELSE IF directive = <<"tempo">> THEN [md EXCEPT !.tempo = Some(value)]
    ELSE IF directive = <<"time">> THEN [md EXCEPT !.time = Some(value)]
    ELSE md

\* extract_directive with a slip: a capo value that is no integer leaves
\* the capo as it was
extract_directive_capo_kept(md, directive, value) ==
    IF directive \in {<<"title">>, <<"t">>} THEN [md EXCEPT !.title = Some(value)]
    ELSE IF directive \in {<<"artist">>, <<"a">>} THEN [md EXCEPT !.artist = Some(value)]
    ELSE IF directive = <<"capo">>
    THEN [md EXCEPT !.capo =
              IF value = <<>> THEN Some(0)
              ELSE IF int(value) = None THEN md.capo ELSE int(value)]
    ELSE IF directive = <<"key">> THEN [md EXCEPT !.key = Some(value)]
    ELSE IF directive = <<"tempo">> THEN [md EXCEPT !.tempo = Some(value)]
    ELSE IF directive = <<"time">> THEN [md EXCEPT !.time = Some(value)]
    ELSE md

\* one turn of the loop over the directives (lines 210-225)
extract_directive(md, directive, value) ==
    IF directive \in {<<"title">>, <<"t">>} THEN [md EXCEPT !.title = Some(value)]
    ELSE IF directive \in {<<"artist">>, <<"a">>} THEN [md EXCEPT !.artist = Some(value)]
    ELSE IF directive = <<"capo">>
    THEN [md EXCEPT !.capo =
              IF value = <<>> THEN Some(0)
              ELSE IF int(value) = None THEN Some(0) ELSE int(value)]
    ELSE IF directive = <<"key">> THEN [md EXCEPT !.key = Some(value)]
    ELSE IF directive = <<"tempo">> THEN [md EXCEPT !.tempo = Some(value)]
    ELSE IF directive = <<"time">> THEN [md EXCEPT !.time = Some(value)]
    ELSE md

RECURSIVE extract_directives_backwards(_, _, _)
\* extract_directives with a slip: the directives are taken last to first
extract_directives_backwards(md, ds, n) ==
    IF n > Len(ds) THEN md
    ELSE extract_directive(extract_directives_backwards(md, ds, n + 1),
                           ds[n].name, ds[n].value)

RECURSIVE extract_directives(_, _, _)
extract_directives(md, ds, n) ==
    IF n > Len(ds) THEN md
    ELSE extract_directives(extract_directive(md, ds[n].name, ds[n].value), ds, n + 1)

extract_metadata(text) ==
    extract_directives(
        [title |-> None, artist |-> None, capo |-> None, key |-> None,
         tempo |-> None, time |-> None],
        DIRECTIVE_REGEX_findall(text), 1)

-----------------------------------------------------------------------------
(* validate                                                                *)

\* validate_directive with a slip: a close is refused on an empty stack only,
\* whatever block is on top
validate_directive_any_top(stack, directive) ==
    LET push(kind) == [open_blocks |-> Append(stack, kind), error |-> None]
        pop(kind) == IF stack = <<>>
                     THEN [open_blocks |-> stack, error |-> Some(kind)]
                     ELSE [open_blocks |-> SubSeq(stack, 1, Len(stack) - 1),
                           error |-> None]
    IN  IF directive \in {<<"soc">>, <<"start_of_chorus">>, <<"chorus">>}
        THEN push("chorus")
        ELSE IF directive \in {<<"eoc">>, <<"end_of_chorus">>} THEN pop("chorus")
        ELSE IF directive \in {<<"sov">>, <<"start_of_verse">>, <<"verse">>}
        THEN push("verse")
        ELSE IF directive \in {<<"eov">>, <<"end_of_verse">>} THEN pop("verse")
        ELSE IF directive \in {<<"sob">>, <<"start_of_bridge">>, <<"bridge">>}
        THEN push("bridge")
        ELSE IF directive \in {<<"eob">>, <<"end_of_bridge">>} THEN pop("bridge")
        ELSE IF directive \in {<<"sot">>, <<"start_of_tab">>, <<"tab">>}
        THEN push("tab")
        ELSE IF directive \in {<<"eot">>, <<"end_of_tab">>} THEN pop("tab")
        ELSE [open_blocks |-> stack, error |-> None]

\* one turn of the loop over a line's directives (lines 64-89): the stack
\* after the directive, and the block kind of the failed close, if any
validate_directive(stack, directive) ==
    LET top == IF stack = <<>> THEN "" ELSE stack[Len(stack)]
        push(kind) == [open_blocks |-> Append(stack, kind), error |-> None]
        pop(kind) == IF stack = <<>> \/ top # kind
                     THEN [open_blocks |-> stack, error |-> Some(kind)]
                     ELSE [open_blocks |-> SubSeq(stack, 1, Len(stack) - 1),
                           error |-> None]
    IN  IF directive \in {<<"soc">>, <<"start_of_chorus">>, <<"chorus">>}
        THEN push("chorus")
        ELSE IF directive \in {<<"eoc">>, <<"end_of_chorus">>} THEN pop("chorus")
        ELSE IF directive \in {<<"sov">>, <<"start_of_verse">>, <<"verse">>}
        THEN push("verse")
        ELSE IF directive \in {<<"eov">>, <<"end_of_verse">>} THEN pop("verse")
        ELSE IF directive \in {<<"sob">>, <<"start_of_bridge">>, <<"bridge">>}
        THEN push("bridge")
        ELSE IF directive \in {<<"eob">>, <<"end_of_bridge">>} THEN pop("bridge")
        ELSE IF directive \in {<<"sot">>, <<"start_of_tab">>, <<"tab">>}
        THEN push("tab")
        ELSE IF directive \in {<<"eot">>, <<"end_of_tab">>} THEN pop("tab")
        ELSE [open_blocks |-> stack, error |-> None]

RECURSIVE validate_directives(_, _, _)
\* the loop over a line's directives, left at the first failed close
validate_directives(stack, ds, n) ==
    IF n > Len(ds) THEN [open_blocks |-> stack, error |-> None]
    ELSE LET r == validate_directive(stack, ds[n].name)
         IN  IF r.error # None THEN r
             ELSE validate_directives(r.open_blocks, ds, n + 1)

RECURSIVE join_with(_, _)
\* sep.join(ws)
join_with(sep, ws) ==
    IF ws = <<>> THEN <<>>
    ELSE IF Len(ws) = 1 THEN <<ws[1]>>
    ELSE <<ws[1], sep>> \o join_with(sep, Tail(ws))

\* empty_content with a slip: text of white space only is not refused
empty_content_not_stripped(s) == s = <<>>

\* line 55: not content or not content.strip()
empty_content(s) == s = <<>> \/ ~strip(s)

RECURSIVE bracket_depths_ok(_, _)
\* no "]" of s comes before its "[", and depth "[" are left open at the end
bracket_depths_ok(s, depth) ==
    IF s = <<>> THEN depth = 0
    ELSE IF s[1] = "[" THEN bracket_depths_ok(Tail(s), depth + 1)
    ELSE IF s[1] = "]" THEN depth > 0 /\ bracket_depths_ok(Tail(s), depth - 1)
    ELSE bracket_depths_ok(Tail(s), depth)

\* unmatched_brackets with a slip: the brackets are paired up, not counted
unmatched_brackets_paired(line) == ~bracket_depths_ok(line, 0)

\* lines 92-94: the line's counts of "[" and "]" differ
unmatched_brackets(line) == count(line, "[") # count(line, "]")

\* validate's return values
Valid == [is_valid |-> TRUE, error |-> None]

Invalid(message) == [is_valid |-> FALSE, error |-> Some(message)]

EmptyError == <<"Content cannot be empty">>

UnexpectedError(n, kind) == <<"Line ">> \o str(n) \o <<": Unexpected end_of_", kind>>

BracketError(n) == <<"Line ">> \o str(n) \o <<": Unmatched brackets in chords">>

RECURSIVE reversed(_)
reversed(s) == IF s = <<>> THEN <<>> ELSE Append(reversed(Tail(s)), s[1])

\* UnclosedError with a slip: the blocks are listed from the top of the stack
UnclosedError_top_first(stack) ==
    <<"Unclosed block(s): ">> \o join_with(", ", reversed(stack))

UnclosedError(stack) == <<"Unclosed block(s): ">> \o join_with(", ", stack)

RECURSIVE validate_lines(_, _, _)
\* the loop over the lines from line n on (lines 61-95) and what follows it
\* (lines 97-101)
validate_lines(ls, n, stack) ==
    IF n > Len(ls)
    THEN IF stack # <<>> THEN Invalid(UnclosedError(stack)) ELSE Valid
    ELSE LET r == validate_directives(stack, DIRECTIVE_REGEX_findall(ls[n]), 1)
         IN  IF r.error # None THEN Invalid(UnexpectedError(n, r.error[1]))
             ELSE IF unmatched_brackets(ls[n]) THEN Invalid(BracketError(n))
             ELSE validate_lines(ls, n + 1, r.open_blocks)

\* validate(content) as one call
validate(text) ==
    IF empty_content(text) THEN Invalid(EmptyError)
    ELSE validate_lines(split(text), 1, <<>>)

\* locals with a slip: the block stack is one list all calls share, kept
\* where the first call keeps its own
locals_shared_stack(ts, t) == [ts[t] EXCEPT !.open_blocks = ts[1].open_blocks]

\* the locals of call t: every call of validate has its own content, lines,
\* line_num and open_blocks (lines 58-62 bind them in the call's frame)
locals(ts, t) == ts[t]

\* validate, lines 55-59, in a call with locals f
validate_enter(f) ==
    IF empty_content(f.content)
    THEN [f EXCEPT !.pc = "done", !.verdict = Some(Invalid(EmptyError))]
    ELSE [f EXCEPT !.pc = "loop", !.lines = split(f.content),
                   !.open_blocks = <<>>, !.line_num = 0]

\* validate, one turn of the loop over the lines (lines 61-95)
validate_turn(f) ==
    LET n == f.line_num + 1
        line == f.lines[n]
        r == validate_directives(f.open_blocks, DIRECTIVE_REGEX_findall(line), 1)
        g == [f EXCEPT !.line_num = n, !.open_blocks = r.open_blocks]
    IN  IF r.error # None
        THEN [g EXCEPT !.pc = "done",
                       !.verdict = Some(Invalid(UnexpectedError(n, r.error[1])))]
        ELSE IF unmatched_brackets(line)
        THEN [g EXCEPT !.pc = "done", !.verdict = Some(Invalid(BracketError(n)))]
        ELSE g

\* validate, lines 97-101
validate_leave(f) ==
    [f EXCEPT !.pc = "done",
              !.verdict = Some(IF f.open_blocks # <<>>
                               THEN Invalid(UnclosedError(f.open_blocks))
                               ELSE Valid)]

-----------------------------------------------------------------------------
(* parse_line                                                              *)

\* CHORD_REGEX, line 10: "[", one or more characters other than "]", "]".
\* A match is [start, end, content], start the place before "[" and end the
\* place of "]", as match.span() counts them.

RECURSIVE first_close(_, _)
\* the place of the first "]" of s at or after place i, 0 if there is none
first_close(s, i) ==
    IF i > Len(s) THEN 0 ELSE IF s[i] = "]" THEN i ELSE first_close(s, i + 1)

\* chord_match_at with a slip: "[]" is a chord too
chord_match_at_empty(s, i) ==
    LET j == first_close(s, i + 1)
    IN  IF s[i] = "[" /\ j > 0
        THEN <<[start |-> i - 1, end |-> j, content |-> SubSeq(s, i + 1, j - 1)]>>
        ELSE <<>>

\* the match that begins at place i of s, if there is one
chord_match_at(s, i) ==
    LET j == first_close(s, i + 1)
    IN  IF s[i] = "[" /\ j > i + 1
        THEN <<[start |-> i - 1, end |-> j, content |-> SubSeq(s, i + 1, j - 1)]>>
        ELSE <<>>

RECURSIVE CHORD_REGEX_finditer_from(_, _)
\* the matches of s from place i on, left to right, none overlapping
CHORD_REGEX_finditer_from(s, i) ==
    IF i > Len(s) THEN <<>>
    ELSE LET m == chord_match_at(s, i)
         IN  IF m = <<>> THEN CHORD_REGEX_finditer_from(s, i + 1)
             ELSE m \o CHORD_REGEX_finditer_from(s, m[1].end + 1)

CHORD_REGEX_finditer(s) == CHORD_REGEX_finditer_from(s, 1)

\* slice with a slip: the stretch begins one place late
slice_late(s, a, b) == SubSeq(s, a + 2, b)

\* s[a:b]
slice(s, a, b) == SubSeq(s, a + 1, b)

RECURSIVE parse_matches(_, _, _, _, _)
\* the loop over the matches (lines 248-264) and what follows it (267-271)
parse_matches(line, ms, n, acc, last_end) ==
    IF n > Len(ms)
    THEN IF last_end < Len(line) /\ slice(line, last_end, Len(line)) # <<>>
         THEN Append(acc, [type |-> "text", content |-> slice(line, last_end, Len(line))])
         ELSE acc
    ELSE LET m == ms[n]
             text == slice(line, last_end, m.start)
             before == IF m.start > last_end /\ text # <<>>
                       THEN Append(acc, [type |-> "text", content |-> text])
                       ELSE acc
         IN  parse_matches(line, ms, n + 1,
                           Append(before, [type |-> "chord", content |-> m.content]),
                           m.end)

parse_line(line) == parse_matches(line, CHORD_REGEX_finditer(line), 1, <<>>, 0)

-----------------------------------------------------------------------------
(* clean_content                                                           *)

RECURSIVE replace_crlf(_)
\* s.replace('\r\n', '\n')
replace_crlf(s) ==
    IF s = <<>> THEN <<>>
    ELSE IF Len(s) >= 2 /\ s[1] = "\r" /\ s[2] = "\n"
    THEN <<"\n">> \o replace_crlf(SubSeq(s, 3, Len(s)))
    ELSE <<s[1]>> \o replace_crlf(Tail(s))

\* s.replace('\r', '\n')
replace_cr(s) == [i \in 1..Len(s) |-> IF s[i] = "\r" THEN "\n" ELSE s[i]]

\* keep_line with a slip: a third blank line in a row is kept too
keep_line_three(acc, line) ==
    IF line = <<>>
    THEN [cleaned_lines |-> IF acc.empty_count + 1 <= 3
                            THEN Append(acc.cleaned_lines, line)
                            ELSE acc.cleaned_lines,
          empty_count |-> acc.empty_count + 1]
    ELSE [cleaned_lines |-> Append(acc.cleaned_lines, line), empty_count |-> 0]

\* one turn of the loop over the stripped lines (lines 295-302)
keep_line(acc, line) ==
    IF line = <<>>
    THEN [cleaned_lines |-> IF acc.empty_count + 1 <= 2
                            THEN Append(acc.cleaned_lines, line)
                            ELSE acc.cleaned_lines,
          empty_count |-> acc.empty_count + 1]
    ELSE [cleaned_lines |-> Append(acc.cleaned_lines, line), empty_count |-> 0]

RECURSIVE keep_lines(_, _, _)
keep_lines(acc, ls, n) ==
    IF n > Len(ls) THEN acc.cleaned_lines
    ELSE keep_lines(keep_line(acc, ls[n]), ls, n + 1)

RECURSIVE pop_empty(_)
\* lines 305-306: the empty lines at the end are dropped
pop_empty(ls) ==
    IF ls # <<>> /\ ls[Len(ls)] = <<>> THEN pop_empty(SubSeq(ls, 1, Len(ls) - 1))
    ELSE ls

\* clean_content with a slip: a bare "\r" is not made a line end
clean_content_crlf_only(text) ==
    LET ls == split(replace_crlf(text))
        stripped == [i \in 1..Len(ls) |-> rstrip(ls[i])]
    IN  join(pop_empty(keep_lines([cleaned_lines |-> <<>>, empty_count |-> 0],
                                  stripped, 1)))

clean_content(text) ==
    LET ls == split(replace_cr(replace_crlf(text)))
        stripped == [i \in 1..Len(ls) |-> rstrip(ls[i])]
    IN  join(pop_empty(keep_lines([cleaned_lines |-> <<>>, empty_count |-> 0],
                                  stripped, 1)))

-----------------------------------------------------------------------------
(* SongsService, server/services/songs.py.  A row of table songs is        *)
(* [title, content_chordpro, author, capo, transpose_semitones], a row of  *)
(* song_versions is [song_id, content_chordpro, capo,                      *)
(* transpose_semitones], its index being SongVersion.id; a song has its    *)
(* user_id as well, None in demo mode; the calls are made without folder.  *)

\* rejects with a slip: an "Unclosed block(s)" error is refused as well
rejects_unclosed_too(v) == ~v.is_valid /\ v.error # None

\* songs.py lines 43 and 171: not is_valid and error and 'Unclosed block' not
\* in str(error)
rejects(v) ==
    /\ ~v.is_valid
    /\ v.error # None /\ v.error[1] # <<>>
    /\ ~\E i \in 1..Len(v.error[1]) : v.error[1][i] = "Unclosed block(s): "

\* the message of the ValueError of lines 45 and 173
InvalidContent(v) == <<"Invalid ChordPro content: ">> \o v.error[1]

\* create_song, lines 38-83: what the call leaves in the database, and the
\* message of the ValueError it raises, if any
create_song(db, a) ==
    LET content_chordpro == clean_content(a.content_chordpro)
        v == validate(content_chordpro)
        injected == inject_metadata(content_chordpro, Some(a.title),
                                    IF Truthy(a.author) THEN a.author ELSE None,
                                    Some(IF a.capo # 0 THEN a.capo ELSE 0), None)
        song == [title |-> a.title, content_chordpro |-> injected,
                 author |-> a.author, capo |-> a.capo,
                 transpose_semitones |-> a.transpose_semitones,
                 user_id |-> a.user_id]
        version == [song_id |-> Len(db.songs) + 1, content_chordpro |-> injected,
                    capo |-> a.capo, transpose_semitones |-> a.transpose_semitones]
    IN  IF rejects(v)
        THEN [songs |-> db.songs, versions |-> db.versions,
              raised |-> Some(InvalidContent(v))]
        ELSE [songs |-> Append(db.songs, song),
              versions |-> Append(db.versions, version), raised |-> None]

\* x if x is not None, else y
or_else(x, y) == IF x # None THEN x[1] ELSE y

\* get_song, lines 97-102: the id of the song, if there is one with that id
\* which, a user being given, is that user's
get_song(db, song_id, user_id) ==
    IF /\ song_id \in 1..Len(db.songs)
       /\ user_id # None => db.songs[song_id].user_id = user_id
    THEN Some(song_id) ELSE None

\* update_song, lines 152-205
update_song(db, a) ==
    IF get_song(db, a.song_id, a.user_id) = None
    THEN [songs |-> db.songs, versions |-> db.versions, raised |-> None]
    ELSE
    LET song == db.songs[a.song_id]
        given == a.content_chordpro
        \* lines 158-165
        saved == IF Truthy(given) /\ given[1] # song.content_chordpro
                 THEN Append(db.versions,
                             [song_id |-> a.song_id,
                              content_chordpro |-> song.content_chordpro,
                              capo |-> song.capo,
                              transpose_semitones |-> song.transpose_semitones])
                 ELSE db.versions
        \* lines 168-174
        content_chordpro == IF Truthy(given) THEN Some(clean_content(given[1]))
                            ELSE given
        v == validate(content_chordpro[1])
        \* lines 177-178
        new_title == or_else(a.title, song.title)
        \* lines 179-192
        injected == inject_metadata(content_chordpro[1],
                        Some(IF Truthy(a.title) THEN a.title[1] ELSE new_title),
                        IF a.author # None THEN a.author ELSE song.author,
                        Some(or_else(a.capo, song.capo)), None)
    IN  IF Truthy(given) /\ rejects(v)
        THEN [songs |-> db.songs, versions |-> db.versions,
              raised |-> Some(InvalidContent(v))]
        ELSE [songs |-> [db.songs EXCEPT ![a.song_id] =
                            [title |-> new_title,
                             content_chordpro |->
                                 IF content_chordpro # None THEN injected
                                 ELSE song.content_chordpro,
                             author |-> IF a.author # None THEN a.author
                                        ELSE song.author,
                             capo |-> or_else(a.capo, song.capo),
                             transpose_semitones |->
                                 or_else(a.transpose_semitones,
                                         song.transpose_semitones),
                             user_id |-> song.user_id]],
              versions |-> saved, raised |-> None]

\* get_version with a slip: the version is looked up by its id alone
get_version_of_any_song(db, version_id, song_id) ==
    IF version_id \in 1..Len(db.versions) THEN Some(version_id) ELSE None

\* lines 302-304: the id of the version, if there is one with that id that
\* is a version of the song
get_version(db, version_id, song_id) ==
    IF /\ version_id \in 1..Len(db.versions)
       /\ db.versions[version_id].song_id = song_id
    THEN Some(version_id) ELSE None

\* restore_version, lines 298-325: what the call leaves in the database, and
\* the id of the song it returns, if any
restore_version(db, a) ==
    LET found == get_song(db, a.song_id, a.user_id)
        chosen == get_version(db, a.version_id, a.song_id)
        song == db.songs[a.song_id]
        version == db.versions[a.version_id]
        current_version == [song_id |-> a.song_id,
                            content_chordpro |-> song.content_chordpro,
                            capo |-> song.capo,
                            transpose_semitones |-> song.transpose_semitones]
    IN  IF found = None \/ chosen = None
        THEN [songs |-> db.songs, versions |-> db.versions, returned |-> None]
        ELSE [songs |-> [db.songs EXCEPT ![a.song_id] =
                            [song EXCEPT
                                !.content_chordpro = version.content_chordpro,
                                !.capo = version.capo,
                                !.transpose_semitones = version.transpose_semitones]],
              versions |-> Append(db.versions, current_version),
              returned |-> found]

-----------------------------------------------------------------------------
(* The inputs the engine is called with.                                   *)

\* every document of 1..MaxLines lines drawn from pool
Docs(pool) == {join(ls) : ls \in UNION {[1..n -> pool] : n \in 1..MaxLines}}

\* lines of the documents given to inject_metadata
MergeLines ==
    { <<>>,                                                 \* empty
      <<" ">>,                                              \* white space only
      <<"x">>,                                              \* lyric
      <<"{", "t", ":", "Y", "}">>,
      <<"{", "capo", ":", "1", "}">>,
      <<"{", "t", ":", "Y", "}", "{", "c", "}", "x">>,      \* with other text
      <<"{", "key", "}", "{", "a", ":", "B", "}">> }        \* two fields

MergeArgs ==
    {None, Some(<<>>), Some(<<"X">>)} \X {None, Some(<<"A">>)}
        \X {None, Some(0)} \X {None, Some(<<"G">>)}

\* the values merged into the empty document
FreshArgs ==
    {None, Some(<<>>), Some(<<"X">>), Some(<<"X", ":", " ", "Y">>),
     Some(<<"X", "}">>)}
        \X {None, Some(<<"A">>), Some(<<" ">>)}
        \X {None, Some(0), Some(2), Some(12), Some(0 - 1)}
        \X {None, Some(<<"G">>), Some(<<"{", "G">>)}

\* lines of the documents given to validate
ValidateLines ==
    { <<>>,
      <<" ">>,
      <<"x">>,
      <<"{", "soc", "}">>,
      <<"{", "eoc", "}">>,
      <<"{", "verse", ":", "x", "}">>,
      <<"{", "end_of_verse", "}">>,
      <<"{", "soc", "}", "{", "sov", "}">>,
      <<"{", "sob", "}">>,
      <<"{", "eot", "}">>,
      <<"[", "G", "]", "x">>,
      <<"[", "G">>,
      <<"]">>,
      <<"]", "x", "[", "[", "G", "]">>,                    \* equal counts
      <<"{", "eoc", "}", "[">> }

\* lines of the documents given to extract_metadata
ExtractLines ==
    { <<"x">>,
      <<"{", "title", ":", "A", "}">>,
      <<"{", "t", ":", "B", "}">>,
      <<"{", "title", "}">>,                                \* no value
      <<"{", "a", "}", "{", "key", ":", "}">>,
      <<"{", "artist", ":", "A", "}", "x", "{", "key", ":", "G", "}">>,
      <<"{", "tempo", ":", "120", "}", "{", "time", ":", "4/4", "}">>,
      <<"{", "tempo", "}", "{", "time", "}">>,
      <<"{", "capo", ":", "3", "}">>,
      <<"{", "capo", "}">>,
      <<"{", "capo", ":", "}">>,
      <<"{", "capo", ":", "x", "}">>,
      <<"{", "capo", ":", " ", "-", "1", "2", " ", "}">>,
      <<"{", "title", ":", "A">>,                           \* closed further on
      <<"}", "x">>,
      <<"{", "Title", ":", "Z", "}", "{", "capo", " ", ":", "5", "}">> }

\* pieces of the lines given to parse_line
LinePieces ==
    { <<"x">>,
      <<" ">>,
      <<"G">>,
      <<"[">>,
      <<"]">>,
      <<"[", "G", "]">>,
      <<"[", "C", "]", "x">> }

\* the names of the directives given to the three operations: the names the
\* code compares against, and names that differ from them in case, in
\* spaces around them, or altogether
DirectiveNames ==
    { <<"soc">>, <<"start_of_chorus">>, <<"chorus">>, <<"eoc">>, <<"end_of_chorus">>,
      <<"sov">>, <<"start_of_verse">>, <<"verse">>, <<"eov">>, <<"end_of_verse">>,
      <<"sob">>, <<"start_of_bridge">>, <<"bridge">>, <<"eob">>, <<"end_of_bridge">>,
      <<"sot">>, <<"start_of_tab">>, <<"tab">>, <<"eot">>, <<"end_of_tab">>,
      <<"title">>, <<"t">>, <<"artist">>, <<"a">>, <<"capo">>, <<"key">>,
      <<"tempo">>, <<"time">>,
      <<"SOC">>, <<"Chorus">>, <<"EOV">>, <<"End_Of_Verse">>, <<"Title">>, <<"T">>,
      <<"Capo">>, <<"KEY">>,
      <<" ", "soc">>, <<"sov", " ">>, <<" ", "eov", " ">>, <<" ", "title">>,
      <<"capo", " ">>,
      <<"c">>, <<"comment">>, <<"end_of_song">>, <<"unknown">> }

\* the lines that come before the directive: nothing, or a block opened
NameLead ==
    { <<>>,
      <<"{", "soc", "}", "\n">>,
      <<"{", "start_of_verse", "}", "\n">>,
      <<"{", "bridge", ":", "x", "}", "\n">>,
      <<"{", "sot", "}", "\n">> }

\* the documents whose last line is one directive, with a value or without
NameDocs ==
    {lead \o <<"{">> \o name \o value \o <<"}">> :
        lead \in NameLead, name \in DirectiveNames, value \in {<<>>, <<":", "5">>}}

\* the contents given to create_song and update_song
SongContents ==
    { <<>>,
      <<" ">>,
      <<"{", "soc", "}", "\r", "\n", "x", " ">>,            \* block left open
      <<"{", "t", ":", "Y", "}", "\n", "[", "G">>,          \* bracket left open
      <<"{", "eoc", "}">>,                                  \* close of no block
      <<"{", "t", ":", "Y", "}", "\n", "[", "G", "]", "x">> }

\* author and capo given to create_song
CreateArgs == {<<None, 0>>, <<Some(<<"A">>), 2>>, <<Some(<<>>), 0>>}

\* title, author and capo given to update_song
UpdateArgs ==
    { <<None, None, None>>,
      <<Some(<<"Z">>), Some(<<"B">>), Some(3)>>,
      <<Some(<<>>), Some(<<>>), Some(0)>> }

\* the documents given to the validate calls that run side by side
ThreadDocs ==
    { <<" ">>,
      <<"x">>,
      <<"{", "eoc", "}">>,
      <<"[", "G", "\n", "x">>,
      <<"{", "soc", "}", "\n", "{", "sov", "}">>,
      <<"{", "soc", "}", "\n", "x", "\n", "{", "eoc", "}">> }

\* the locals of a call of validate(text) that has not begun
Called(text) ==
    [content |-> text, pc |-> "start", lines |-> <<>>, line_num |-> 0,
     open_blocks |-> <<>>, verdict |-> None]

\* lines of the documents merged and then validated
BlockLines ==
    { <<"x">>,
      <<"{", "soc", "}">>,
      <<"{", "eoc", "}">>,
      <<"{", "t", ":", "Y", "}", "{", "soc", "}">>,         \* title, then an open
      <<"{", "eoc", "}", "{", "capo", ":", "1", "}">> }     \* a close, then capo

\* the values merged into them
BlockArgs ==
    { <<None, None, None, None>>,
      <<Some(<<"X">>), None, None, None>>,
      <<None, Some(<<"A">>), Some(0), None>>,
      <<Some(<<"X">>), Some(<<"A">>), Some(2), Some(<<"G">>)>> }

RECURSIVE flatten(_)
\* the pieces one after the other
flatten(ps) == IF ps = <<>> THEN <<>> ELSE ps[1] \o flatten(Tail(ps))

\* every text of at most MaxPieces pieces drawn from pool
Texts(pool) == {flatten(ps) : ps \in UNION {[1..n -> pool] : n \in 0..MaxPieces}}

\* pieces of the texts given to clean_content
CleanPieces ==
    { <<"x">>,
      <<"x", " ", "\r", "\n">>,                            \* trailing space
      <<" ">>,
      <<"\n">>,
      <<"\r">>,
      <<"\n", " ", "\n", "\n">>,                          \* blank lines
      <<"[">>,
      <<"]">>,
      <<"{", "soc", "}">>,
      <<"{", "eoc", "}">> }

-----------------------------------------------------------------------------
(* The engine's calls.                                                     *)

Idle ==
    /\ op = "none"
    /\ result = None /\ again = None /\ metadata = None
    /\ lines = <<>> /\ line_num = 0 /\ open_blocks = <<>> /\ verdict = None
    /\ cleaned = None /\ cleaned_verdict = None /\ segments = None
    /\ songs = <<>> /\ versions = <<>> /\ calls = <<>> /\ raised = None
    /\ threads = <<>>

Given(args) ==
    title = args[1] /\ artist = args[2] /\ capo = args[3] /\ key = args[4]

InitMerge ==
    /\ \/ content \in Docs(MergeLines) /\ \E args \in MergeArgs : Given(args)
       \/ content = <<>> /\ \E args \in FreshArgs : Given(args)
    /\ Idle

InitValidate ==
    /\ content \in Docs(ValidateLines)
    /\ title = None /\ artist = None /\ capo = None /\ key = None
    /\ Idle

\* inject_metadata(content, title, artist, capo, key)
Inject ==
    /\ op = "none"
    /\ result' = Some(inject_metadata(content, title, artist, capo, key))
    /\ op' = "inject_metadata"
    /\ UNCHANGED <<content, title, artist, capo, key, again, metadata,
                   lines, line_num, open_blocks, verdict>>
    /\ UNCHANGED <<texts, store>>
    /\ UNCHANGED threads

\* inject_metadata(result, title, artist, capo, key): the same values merged
\* into the merged document
InjectAgain ==
    /\ op = "inject_metadata"
    /\ again' = Some(inject_metadata(result[1], title, artist, capo, key))
    /\ op' = "inject_metadata again"
    /\ UNCHANGED <<content, title, artist, capo, key, result, metadata,
                   lines, line_num, open_blocks, verdict>>
    /\ UNCHANGED <<texts, store>>
    /\ UNCHANGED threads

\* extract_metadata(result)
Extract ==
    /\ op = "inject_metadata"
    /\ metadata' = Some(extract_metadata(result[1]))
    /\ op' = "extract_metadata"
    /\ UNCHANGED <<content, title, artist, capo, key, result, again,
                   lines, line_num, open_blocks, verdict>>
    /\ UNCHANGED <<texts, store>>
    /\ UNCHANGED threads

\* validate, lines 55-59
ValidateStart ==
    /\ op = "none"
    /\ IF empty_content(content)
       THEN /\ verdict' = Some(Invalid(EmptyError))
            /\ op' = "validate done"
            /\ UNCHANGED <<lines, line_num, open_blocks>>
       ELSE /\ lines' = split(content)
            /\ open_blocks' = <<>>
            /\ line_num' = 0
            /\ op' = "validate"
            /\ UNCHANGED verdict
    /\ UNCHANGED <<content, title, artist, capo, key, result, again, metadata>>
    /\ UNCHANGED <<texts, store>>
    /\ UNCHANGED threads

\* validate, one turn of the loop over the lines (lines 61-95)
ValidateLine ==
    /\ op = "validate"
    /\ line_num < Len(lines)
    /\ LET n == line_num + 1
           line == lines[n]
           r == validate_directives(open_blocks, DIRECTIVE_REGEX_findall(line), 1)
       IN  /\ line_num' = n
           /\ open_blocks' = r.open_blocks
           /\ IF r.error # None
              THEN verdict' = Some(Invalid(UnexpectedError(n, r.error[1])))
                   /\ op' = "validate done"
              ELSE IF unmatched_brackets(line)
              THEN verdict' = Some(Invalid(BracketError(n)))
                   /\ op' = "validate done"
              ELSE UNCHANGED <<verdict, op>>
    /\ UNCHANGED <<content, title, artist, capo, key, result, again, metadata,
                   lines>>
    /\ UNCHANGED <<texts, store>>
    /\ UNCHANGED threads

\* validate, lines 97-101
ValidateEnd ==
    /\ op = "validate"
    /\ line_num = Len(lines)
    /\ verdict' = Some(IF open_blocks # <<>> THEN Invalid(UnclosedError(open_blocks))
                       ELSE Valid)
    /\ op' = "validate done"
    /\ UNCHANGED <<content, title, artist, capo, key, result, again, metadata,
                   lines, line_num, open_blocks>>
    /\ UNCHANGED <<texts, store>>
    /\ UNCHANGED threads

InitClean ==
    /\ content \in Texts(CleanPieces)
    /\ title = None /\ artist = None /\ capo = None /\ key = None
    /\ Idle

\* clean_content(content)
Clean ==
    /\ op = "none"
    /\ cleaned' = Some(clean_content(content))
    /\ op' = "clean_content"
    /\ UNCHANGED <<content, title, artist, capo, key, engine, cleaned_verdict,
                   segments, store>>
    /\ UNCHANGED threads

\* validate(content), the text as it was given
ValidateGiven ==
    /\ op = "clean_content"
    /\ verdict = None
    /\ verdict' = Some(validate(content))
    /\ UNCHANGED <<content, title, artist, capo, key, op, result, again,
                   metadata, lines, line_num, open_blocks, texts, store>>
    /\ UNCHANGED threads

\* validate(cleaned), the text clean_content returned
ValidateCleaned ==
    /\ op = "clean_content"
    /\ cleaned_verdict = None
    /\ cleaned_verdict' = Some(validate(cleaned[1]))
    /\ UNCHANGED <<content, title, artist, capo, key, op, engine, cleaned,
                   segments, store>>
    /\ UNCHANGED threads

InitExtract ==
    /\ content \in Docs(ExtractLines)
    /\ title = None /\ artist = None /\ capo = None /\ key = None
    /\ Idle

\* extract_metadata(content)
ExtractGiven ==
    /\ op = "none"
    /\ metadata' = Some(extract_metadata(content))
    /\ op' = "extract_metadata"
    /\ UNCHANGED <<content, title, artist, capo, key, result, again,
                   lines, line_num, open_blocks, verdict, texts, store>>
    /\ UNCHANGED threads

InitParse ==
    /\ content \in Texts(LinePieces)
    /\ title = None /\ artist = None /\ capo = None /\ key = None
    /\ Idle

\* parse_line(content)
ParseLine ==
    /\ op = "none"
    /\ segments' = Some(parse_line(content))
    /\ op' = "parse_line"
    /\ UNCHANGED <<content, title, artist, capo, key, engine, cleaned,
                   cleaned_verdict, store>>
    /\ UNCHANGED threads

InitNames ==
    /\ content \in NameDocs
    /\ Given(<<Some(<<"X">>), Some(<<"A">>), Some(0), Some(<<"G">>)>>)
    /\ Idle

InitSongs ==
    /\ content = <<>>
    /\ title = None /\ artist = None /\ capo = None /\ key = None
    /\ Idle

\* a call of create_song
CreateSong ==
    /\ Len(calls) < MaxCalls
    /\ \E text \in SongContents, args \in CreateArgs :
           LET a == [call |-> "create_song", title |-> <<"X">>,
                     content_chordpro |-> text, author |-> args[1],
                     capo |-> args[2], transpose_semitones |-> 0,
                     user_id |-> None]
               r == create_song([songs |-> songs, versions |-> versions], a)
           IN  /\ calls' = Append(calls, a)
               /\ songs' = r.songs
               /\ versions' = r.versions
               /\ raised' = r.raised
    /\ op' = "create_song"
    /\ UNCHANGED <<content, title, artist, capo, key, engine, texts>>
    /\ UNCHANGED threads

\* a call of update_song
UpdateSong ==
    /\ Len(calls) < MaxCalls
    /\ \E text \in {None} \cup {Some(t) : t \in SongContents}, args \in UpdateArgs :
           LET a == [call |-> "update_song", song_id |-> 1, title |-> args[1],
                     content_chordpro |-> text, author |-> args[2],
                     capo |-> args[3], transpose_semitones |-> None,
                     user_id |-> None]
               r == update_song([songs |-> songs, versions |-> versions], a)
           IN  /\ calls' = Append(calls, a)
               /\ songs' = r.songs
               /\ versions' = r.versions
               /\ raised' = r.raised
    /\ op' = "update_song"
    /\ UNCHANGED <<content, title, artist, capo, key, engine, texts>>
    /\ UNCHANGED threads

\* the contents of the songs whose versions are restored
RestoreContents == {<<"x">>, <<"[", "G", "]", "x">>}

\* the calls that made the database the versions are restored in: a song in
\* demo mode, a song of user 7, and an update of the first song
Stored(first, second) ==
    <<[call |-> "create_song", title |-> <<"X">>, content_chordpro |-> first,
       author |-> None, capo |-> 0, transpose_semitones |-> 0,
       user_id |-> None],
      [call |-> "create_song", title |-> <<"Y">>, content_chordpro |-> <<"x">>,
       author |-> None, capo |-> 2, transpose_semitones |-> 1,
       user_id |-> Some(7)],
      [call |-> "update_song", song_id |-> 1, title |-> None,
       content_chordpro |-> Some(second), author |-> None, capo |-> Some(3),
       transpose_semitones |-> Some(2), user_id |-> None]>>

InitRestore ==
    /\ content = <<>>
    /\ title = None /\ artist = None /\ capo = None /\ key = None
    /\ op = "none"
    /\ result = None /\ again = None /\ metadata = None
    /\ lines = <<>> /\ line_num = 0 /\ open_blocks = <<>> /\ verdict = None
    /\ cleaned = None /\ cleaned_verdict = None /\ segments = None
    /\ threads = <<>>
    /\ raised = None
    /\ \E first \in RestoreContents, second \in RestoreContents :
           LET made == Stored(first, second)
               one == create_song([songs |-> <<>>, versions |-> <<>>], made[1])
               two == create_song(one, made[2])
               three == update_song(two, made[3])
           IN  /\ calls = made
               /\ songs = three.songs
               /\ versions = three.versions

\* the calls of restore_version made so far
Restored == {i \in 1..Len(calls) : calls[i].call = "restore_version"}

\* a call of restore_version
RestoreVersion ==
    /\ Cardinality(Restored) < MaxCalls
    /\ \E song_id \in 1..(Len(songs) + 1), version_id \in 1..(Len(versions) + 1),
          user_id \in {None, Some(7)} :
           LET a == [call |-> "restore_version", song_id |-> song_id,
                     version_id |-> version_id, user_id |-> user_id]
               r == restore_version([songs |-> songs, versions |-> versions], a)
           IN  /\ calls' = Append(calls, a)
               /\ songs' = r.songs
               /\ versions' = r.versions
               /\ op' = IF r.returned = None THEN "restore_version: None"
                                             ELSE "restore_version"
    /\ UNCHANGED <<content, title, artist, capo, key, engine, texts, raised>>
    /\ UNCHANGED threads

InitThreads ==
    /\ content \in ThreadDocs
    /\ title = None /\ artist = None /\ capo = None /\ key = None
    /\ op = "none"
    /\ result = None /\ again = None /\ metadata = None
    /\ lines = <<>> /\ line_num = 0 /\ open_blocks = <<>> /\ verdict = None
    /\ cleaned = None /\ cleaned_verdict = None /\ segments = None
    /\ songs = <<>> /\ versions = <<>> /\ calls = <<>> /\ raised = None
    /\ \E one \in ThreadDocs, other \in ThreadDocs :
           threads = <<Called(one), Called(other)>>

\* what a step of a call of validate leaves alone
ThreadFrame == <<content, title, artist, capo, key, op, engine, texts, store>>

\* call t enters validate
ThreadEnter(t) ==
    /\ threads[t].pc = "start"
    /\ threads' = [threads EXCEPT ![t] = validate_enter(locals(threads, t))]
    /\ UNCHANGED ThreadFrame

\* call t examines its next line
ThreadTurn(t) ==
    /\ threads[t].pc = "loop"
    /\ threads[t].line_num < Len(threads[t].lines)
    /\ threads' = [threads EXCEPT ![t] = validate_turn(locals(threads, t))]
    /\ UNCHANGED ThreadFrame

\* call t has examined its lines and returns
ThreadLeave(t) ==
    /\ threads[t].pc = "loop"
    /\ threads[t].line_num = Len(threads[t].lines)
    /\ threads' = [threads EXCEPT ![t] = validate_leave(locals(threads, t))]
    /\ UNCHANGED ThreadFrame

InitBlocks ==
    /\ content \in Docs(BlockLines)
    /\ \E args \in BlockArgs : Given(args)
    /\ Idle

\* validate(result), the document inject_metadata returned
ValidateMerged ==
    /\ op = "inject_metadata"
    /\ verdict' = Some(validate(result[1]))
    /\ op' = "validate merged"
    /\ UNCHANGED <<content, title, artist, capo, key, result, again, metadata,
                   lines, line_num, open_blocks, texts, store, threads>>

NextMerge == Inject \/ InjectAgain \/ Extract

NextValidate == ValidateStart \/ ValidateLine \/ ValidateEnd

SpecMerge == InitMerge /\ [][NextMerge]_vars

SpecValidate == InitValidate /\ [][NextValidate]_vars

NextExtract == ExtractGiven

SpecExtract == InitExtract /\ [][NextExtract]_vars

NextParse == ParseLine

SpecParse == InitParse /\ [][NextParse]_vars

NextNames == ValidateStart \/ ValidateLine \/ ValidateEnd \/ ExtractGiven \/ Inject

SpecNames == InitNames /\ [][NextNames]_vars

NextSongs == CreateSong \/ UpdateSong

SpecSongs == InitSongs /\ [][NextSongs]_vars

NextThreads ==
    \/ \E t \in DOMAIN threads : ThreadEnter(t)
    \/ \E t \in DOMAIN threads : ThreadTurn(t)
    \/ \E t \in DOMAIN threads : ThreadLeave(t)
    \/ ExtractGiven

SpecThreads == InitThreads /\ [][NextThreads]_vars

NextBlocks == Inject \/ ValidateMerged

NextRestore == RestoreVersion

SpecRestore == InitRestore /\ [][NextRestore]_vars

SpecBlocks == InitBlocks /\ [][NextBlocks]_vars

NextClean == Clean \/ ValidateGiven \/ ValidateCleaned

SpecClean == InitClean /\ [][NextClean]_vars

-----------------------------------------------------------------------------
(* What the claims about inject_metadata speak of, stated on the input     *)
(* document and the values given.                                          *)

Fields == <<"title", "artist", "capo", "key">>

\* the directive names of a field
Names(f) ==
    CASE f = "title" -> {<<"title">>, <<"t">>}
      [] f = "artist" -> {<<"artist">>, <<"a">>}
      [] f = "capo" -> {<<"capo">>}
      [] f = "key" -> {<<"key">>}

\* the argument given for a field
Arg(f) ==
    CASE f = "title" -> title [] f = "artist" -> artist
      [] f = "capo" -> capo [] f = "key" -> key

\* the text of a field's argument
ArgText(f) == IF f = "capo" THEN str(capo[1]) ELSE Arg(f)[1]

\* the field's argument is present (not null)
Present(f) == Arg(f) # None

\* a value is supplied: a non-empty string, or any integer for capo
Supplied(f) == Present(f) /\ (f = "capo" \/ Arg(f)[1] # <<>>)

\* the line {name:value} of a field, with the value given
Canonical(f) == <<"{", f, ":">> \o ArgText(f) \o <<"}">>

TrackedNames == {<<"title">>, <<"t">>, <<"artist">>, <<"a">>, <<"capo">>, <<"key">>}

\* the directives of a tracked field on a line
Tracked(line) ==
    SelectSeq(DIRECTIVE_REGEX_findall(line), LAMBDA d : d.name \in TrackedNames)

\* the field of a tracked directive
FieldOf(d) == CHOOSE f \in {Fields[i] : i \in 1..Len(Fields)} : d.name \in Names(f)

OnLine(f, line) ==
    LET ds == DIRECTIVE_REGEX_findall(line)
    IN  \E i \in 1..Len(ds) : ds[i].name \in Names(f)

IsMetadataLine(line) ==
    LET ds == DIRECTIVE_REGEX_findall(line)
    IN  \E i \in 1..Len(ds) : ds[i].name \in TrackedNames

InputLines == split(content)

InputMetadata == SelectSeq(InputLines, IsMetadataLine)

InputContent == SelectSeq(InputLines, LAMBDA l : ~IsMetadataLine(l))

Found(f) ==
    LET ls == InputLines IN \E i \in 1..Len(ls) : OnLine(f, ls[i])

\* the fields a line is synthesized for, in field order
Synthesized == SelectSeq(Fields, LAMBDA f : Supplied(f) /\ ~Found(f))

\* a blank separator line is due
Separated ==
    LET ls == InputLines
    IN  /\ Synthesized # <<>> \/ \E i \in 1..Len(ls) : IsMetadataLine(ls[i])
        /\ \E i \in 1..Len(ls) : strip(ls[i]) /\ ~IsMetadataLine(ls[i])

Merged == op = "inject_metadata"

OutputLines == split(result[1])

\* t occurs in s as a contiguous run
Occurs(t, s) == \E i \in 0..(Len(s) - Len(t)) : SubSeq(s, i + 1, i + Len(t)) = t

\* C1: merging the same values twice gives the same text as merging once
C1_Idempotent == op = "inject_metadata again" => again = result

\* C2: the input lines holding no directive of a tracked field are the tail
\* of the output, unchanged and in order, and before them come only lines
\* holding a tracked directive and then at most one empty line
C2_ContentLinesKept ==
    Merged =>
        LET out == OutputLines
            kept == InputContent
            head == Len(out) - Len(kept)
        IN  /\ head >= 0
            /\ SubSeq(out, head + 1, Len(out)) = kept
            /\ \A i \in 1..head :
                   \/ IsMetadataLine(out[i])
                   \/ i = head /\ out[i] = <<>>

C2_Witness ==
    /\ Merged
    /\ Len(InputContent) >= 2
    /\ \E i \in 1..Len(InputContent) : InputContent[i] = <<>>
    /\ \E i, j \in 1..Len(InputLines) :
           i < j /\ ~IsMetadataLine(InputLines[i]) /\ IsMetadataLine(InputLines[j])
    /\ OutputLines # InputLines

\* the runs of a line's text outside the directives of the tracked fields
Outside(line) ==
    LET ds == Tracked(line)
        covered(i) == \E n \in 1..Len(ds) : ds[n].start <= i /\ i <= ds[n].end
    IN  {SubSeq(line, a, b) : a, b \in 1..Len(line)} \cap
        {SubSeq(line, ab[1], ab[2]) : ab \in
            {x \in (1..Len(line)) \X (1..Len(line)) :
                /\ x[1] <= x[2]
                /\ \A i \in x[1]..x[2] : ~covered(i)
                /\ x[1] = 1 \/ covered(x[1] - 1)
                /\ x[2] = Len(line) \/ covered(x[2] + 1)}}

\* C3: all input text outside the directives of the tracked fields is in the
\* output
C3_NoDataLost ==
    Merged =>
        \A i \in 1..Len(InputLines) :
            \A t \in Outside(InputLines[i]) : Occurs(t, result[1])

\* C4: the output is the lines synthesized, in field order, then the
\* metadata lines in their original order (each as it was or as the
\* canonical line of a field on it), then one empty line exactly when a
\* header exists and some content line is not blank, then the content lines
C4_OutputOrder ==
    Merged =>
        LET out == OutputLines
            new == Synthesized
            found == InputMetadata
            kept == InputContent
            ns == Len(new)
            nm == Len(found)
            sep == IF Separated THEN 1 ELSE 0
        IN  /\ Len(out) = ns + nm + sep + Len(kept)
            /\ \A i \in 1..ns : out[i] = Canonical(new[i])
            /\ \A i \in 1..nm :
                   \/ out[ns + i] = found[i]
                   \/ \E n \in 1..Len(Fields) :
                          /\ OnLine(Fields[n], found[i])
                          /\ Supplied(Fields[n])
                          /\ out[ns + i] = Canonical(Fields[n])
            /\ sep = 1 => out[ns + nm + 1] = <<>>
            /\ SubSeq(out, ns + nm + sep + 1, Len(out)) = kept

C4_Witness ==
    /\ Merged
    /\ Len(Synthesized) >= 2
    /\ Len(InputMetadata) >= 2
    /\ InputMetadata[1] # InputMetadata[2]
    /\ ~IsMetadataLine(InputLines[1])
    /\ Separated

FieldSet == {Fields[i] : i \in 1..Len(Fields)}

\* C5: a field with a value supplied and no directive in the document gets
\* exactly one line {name:value}, among the first lines of the output; no
\* other line is added but the separator
C5_SynthesizedOnce ==
    Merged =>
        LET out == OutputLines
            S == {f \in FieldSet : Supplied(f) /\ ~Found(f)}
            n == Cardinality(S)
            added == Len(out) - Len(InputLines)
        IN  /\ added \in {n, n + 1}
            /\ added = n + 1 => out[n + Len(InputMetadata) + 1] = <<>>
            /\ \A i \in 1..n : \E f \in S : out[i] = Canonical(f)
            /\ \A f \in S : Cardinality({i \in 1..n : out[i] = Canonical(f)}) = 1

C5_Witness ==
    /\ Merged
    /\ capo = Some(0) /\ ~Found("capo")
    /\ Supplied("title") /\ Found("title")
    /\ artist = None /\ ~Found("artist")
    /\ OutputLines[1] = <<"{", "capo", ":", "0", "}">>

\* the lines of the output that stand for the metadata lines of the input
OutputMetadata ==
    LET ns == Len(Synthesized)
    IN  SubSeq(OutputLines, ns + 1, ns + Len(InputMetadata))

\* C6 as claimed: a line with a directive of a field is exactly the canonical
\* line of that field whenever the field's argument is present (not null),
\* and is left as it was when the argument is absent
C6_RewrittenWhenPresent ==
    Merged =>
        LET found == InputMetadata
            out == OutputMetadata
        IN  \A i \in 1..Len(found) : \A f \in FieldSet :
                OnLine(f, found[i]) =>
                    out[i] = IF Present(f) THEN Canonical(f) ELSE found[i]

\* C6 amended: a line with directives of tracked fields becomes the canonical
\* line of the last of them whose field has a value supplied (a non-empty
\* string, any integer for capo), and is left as it was when none has
C6_RewrittenToLastSupplied ==
    Merged =>
        LET found == InputMetadata
            out == OutputMetadata
        IN  \A i \in 1..Len(found) :
                LET ds == Tracked(found[i])
                    S == {n \in 1..Len(ds) : Supplied(FieldOf(ds[n]))}
                    last == CHOOSE n \in S : \A m \in S : m <= n
                IN  out[i] = IF S = {} THEN found[i]
                             ELSE Canonical(FieldOf(ds[last]))

C6_Witness ==
    /\ Merged
    /\ title = Some(<<>>)
    /\ \E i \in 1..Len(InputMetadata) :
           /\ OnLine("title", InputMetadata[i])
           /\ OutputMetadata[i] = InputMetadata[i]
    /\ \E i \in 1..Len(InputMetadata) :
           /\ OnLine("key", InputMetadata[i]) /\ Supplied("key")
           /\ OnLine("artist", InputMetadata[i]) /\ Supplied("artist")
           /\ OutputMetadata[i] = Canonical("artist")

NoBrace(s) == \A i \in 1..Len(s) : s[i] \notin {"{", "}"}

\* C7: from the merge of values into the empty document, extract_metadata
\* reads back every non-empty title, artist and key without braces, and the
\* capo
C7_FreshRoundTrip ==
    (op = "extract_metadata" /\ content = <<>>) =>
        /\ \A f \in {"title", "artist", "key"} :
               (Supplied(f) /\ NoBrace(Arg(f)[1])) => metadata[1][f] = Arg(f)
        /\ capo # None => metadata[1].capo = capo

C7_Witness ==
    /\ op = "extract_metadata" /\ content = <<>>
    /\ title = Some(<<"X", ":", " ", "Y">>) /\ metadata[1].title = title
    /\ artist = Some(<<"A">>) /\ key = Some(<<"G">>)
    /\ capo = Some(12) /\ metadata[1].capo = Some(12)

-----------------------------------------------------------------------------
(* What the claims about validate speak of, stated on the document: its    *)
(* block directives in document order, and which of them pair up.          *)

BlockKinds == {"chorus", "verse", "bridge", "tab"}

\* the directive names that open a block of a kind
Opens(kind) ==
    CASE kind = "chorus" -> {<<"soc">>, <<"start_of_chorus">>, <<"chorus">>}
      [] kind = "verse" -> {<<"sov">>, <<"start_of_verse">>, <<"verse">>}
      [] kind = "bridge" -> {<<"sob">>, <<"start_of_bridge">>, <<"bridge">>}
      [] kind = "tab" -> {<<"sot">>, <<"start_of_tab">>, <<"tab">>}

\* the directive names that close a block of a kind
Closes(kind) ==
    CASE kind = "chorus" -> {<<"eoc">>, <<"end_of_chorus">>}
      [] kind = "verse" -> {<<"eov">>, <<"end_of_verse">>}
      [] kind = "bridge" -> {<<"eob">>, <<"end_of_bridge">>}
      [] kind = "tab" -> {<<"eot">>, <<"end_of_tab">>}

IsBlockName(name) == \E kind \in BlockKinds : name \in Opens(kind) \cup Closes(kind)

\* the block directives of line n: [line, kind, open]
LineEvents(line, n) ==
    LET ds == SelectSeq(DIRECTIVE_REGEX_findall(line), LAMBDA d : IsBlockName(d.name))
    IN  [i \in 1..Len(ds) |->
            [line |-> n,
             kind |-> CHOOSE kind \in BlockKinds :
                          ds[i].name \in Opens(kind) \cup Closes(kind),
             open |-> \E kind \in BlockKinds : ds[i].name \in Opens(kind)]]

RECURSIVE EventsFrom(_, _)
EventsFrom(ls, n) ==
    IF n > Len(ls) THEN <<>> ELSE LineEvents(ls[n], n) \o EventsFrom(ls, n + 1)

\* the block directives of the document, in document order
Events == EventsFrom(InputLines, 1)

\* opens less closes among E[i..j]
Depth(E, i, j) ==
    Cardinality({k \in i..j : E[k].open}) - Cardinality({k \in i..j : ~E[k].open})

\* close j answers open i: between them every block opened is closed
Answers(E, i, j) ==
    /\ i < j /\ E[i].open /\ ~E[j].open
    /\ Depth(E, i, j) = 0
    /\ \A k \in i..(j - 1) : Depth(E, i, k) > 0

\* the closes that answer no open, or an open of another kind
BadCloses(E) ==
    {j \in 1..Len(E) :
        /\ ~E[j].open
        /\ ~\E i \in 1..(j - 1) : Answers(E, i, j) /\ E[i].kind = E[j].kind}

\* the opens no close answers
StillOpen(E) ==
    {i \in 1..Len(E) : E[i].open /\ \A k \in i..Len(E) : Depth(E, i, k) > 0}

\* the lines whose counts of "[" and "]" differ
BracketLines ==
    LET ls == InputLines
    IN  {n \in 1..Len(ls) :
            Cardinality({i \in 1..Len(ls[n]) : ls[n][i] = "["})
                # Cardinality({i \in 1..Len(ls[n]) : ls[n][i] = "]"})}

Min(S) == CHOOSE n \in S : \A m \in S : n <= m

Validated == op = "validate done"

NotBlank == \E i \in 1..Len(content) : content[i] \notin {" ", "\t", "\n", "\r"}

\* C8: a close that meets no open block of its kind on top is reported as
\* "Line n: Unexpected end_of_K" with n its line, which is the last line
\* examined; the error is that of the first failing line, and on that line
\* the close comes before the brackets
C8_FirstFailure ==
    (Validated /\ NotBlank) =>
        LET E == Events
            bad == BadCloses(E)
            odd == BracketLines
            first == Min(bad)
        IN  /\ (bad # {} /\ \A n \in odd : E[first].line <= n) =>
                   /\ verdict = Some([is_valid |-> FALSE,
                                      error |-> Some(<<"Line ">> \o str(E[first].line)
                                          \o <<": Unexpected end_of_", E[first].kind>>)])
                   /\ line_num = E[first].line
            /\ (odd # {} /\ \A j \in bad : Min(odd) < E[j].line) =>
                   /\ verdict = Some([is_valid |-> FALSE,
                                      error |-> Some(<<"Line ">> \o str(Min(odd))
                                          \o <<": Unmatched brackets in chords">>)])
                   /\ line_num = Min(odd)

C8_Witness ==
    /\ Validated
    /\ Len(lines) = 3
    /\ lines[2] = <<"{", "eoc", "}", "[">>
    /\ open_blocks = <<"chorus", "verse">>
    /\ line_num = 2
    /\ verdict = Some(Invalid(<<"Line ", "2", ": Unexpected end_of_", "chorus">>))

IsUnclosed(v) == v.error # None /\ v.error[1][1] = "Unclosed block(s): "

\* C9: "Unclosed block(s)" is returned exactly for a document that is not
\* blank, has no failing close and no line of unequal bracket counts, and
\* has an open that is never closed; it lists the kinds of these opens in
\* document order, separated by ", "
C9_Unclosed ==
    Validated =>
        LET E == Events
            left == StillOpen(E)
            kinds == SelectSeq([i \in 1..Len(E) |-> i], LAMBDA i : i \in left)
            message == verdict[1].error[1]
        IN  /\ IsUnclosed(verdict[1]) <=>
                   (NotBlank /\ BadCloses(E) = {} /\ BracketLines = {} /\ left # {})
            /\ IsUnclosed(verdict[1]) =>
                   /\ ~verdict[1].is_valid
                   /\ Len(message) = 2 * Len(kinds)
                   /\ \A i \in 1..Len(kinds) : message[2 * i] = E[kinds[i]].kind
                   /\ \A i \in 1..(Len(kinds) - 1) : message[2 * i + 1] = ", "

C9_Witness ==
    /\ Validated
    /\ Len(lines) = 3
    /\ verdict = Some(Invalid(<<"Unclosed block(s): ", "chorus", ", ", "verse">>))

\* C10: validate returns (True, None) exactly for a document that is not
\* blank, whose lines all have equal bracket counts, whose closes all answer
\* an open of their kind and whose opens are all answered; then the stack is
\* empty again; a blank document gets "Content cannot be empty"
C10_ValidExactly ==
    Validated =>
        LET E == Events
        IN  /\ verdict = Some([is_valid |-> TRUE, error |-> None]) <=>
                   /\ NotBlank
                   /\ BracketLines = {}
                   /\ BadCloses(E) = {}
                   /\ StillOpen(E) = {}
            /\ verdict[1].is_valid => open_blocks = <<>>
            /\ ~NotBlank <=>
                   verdict = Some([is_valid |-> FALSE,
                                   error |-> Some(<<"Content cannot be empty">>)])

C10_Witness ==
    /\ Validated
    /\ verdict = Some(Valid)
    /\ Len(Events) = 4
    /\ Events[2].kind # Events[1].kind
    /\ line_num = 3

\* the number of times character c occurs in the document
Total(c) == Cardinality({i \in 1..Len(content) : content[i] = c})

\* C11: "Line n: Unmatched brackets in chords" is never returned for a line
\* n with as many "[" as "]", in whatever order they stand, and it is
\* returned for line n whenever the counts of line n differ and no close
\* failed on a line up to n and no earlier line has differing counts,
\* whatever brackets the other lines hold
C11_BracketsPerLine ==
    (Validated /\ NotBlank) =>
        LET E == Events
            bad == {E[j].line : j \in BadCloses(E)}
            ls == InputLines
        IN  \A n \in 1..Len(ls) :
                LET differ == count(ls[n], "[") # count(ls[n], "]")
                    reported == verdict[1].error = Some(<<"Line ">> \o str(n)
                                    \o <<": Unmatched brackets in chords">>)
                IN  /\ reported => differ
                    /\ ( /\ differ
                         /\ \A m \in 1..n : m \notin bad
                         /\ \A m \in 1..(n - 1) :
                                count(ls[m], "[") = count(ls[m], "]") )
                           => reported

C11_Witness ==
    /\ Validated
    /\ Len(lines) = 3
    /\ lines[1] = <<"]", "x", "[", "[", "G", "]">>
    /\ lines[2] = <<"[", "G">>
    /\ lines[3] = <<"]">>
    /\ Total("[") = Total("]")
    /\ verdict = Some(Invalid(<<"Line ", "2", ": Unmatched brackets in chords">>))

-----------------------------------------------------------------------------
(* What clean_content returns.                                             *)

Cleaned == cleaned # None

\* the places of s where a line ends: every "\n", and every "\r" that no
\* "\n" follows
LineEnds(s) ==
    {i \in 1..Len(s) :
        \/ s[i] = "\n"
        \/ s[i] = "\r" /\ ~(i < Len(s) /\ s[i + 1] = "\n")}

\* s without the white space at its end
Trimmed(s) ==
    LET keep == {i \in 1..Len(s) : s[i] \notin {" ", "\t", "\n", "\r"}}
    IN  IF keep = {} THEN <<>>
        ELSE SubSeq(s, 1, CHOOSE i \in keep : \A j \in keep : j <= i)

\* the lines of s, a line ending at each place of ends, without the white
\* space at their ends
TrimmedLines(s, ends) ==
    LET cut == [i \in 0..(Cardinality(ends) + 1) |->
                   IF i = 0 THEN 0
                   ELSE IF i = Cardinality(ends) + 1 THEN Len(s) + 1
                   ELSE CHOOSE e \in ends : Cardinality({d \in ends : d < e}) = i - 1]
    IN  [i \in 1..(Cardinality(ends) + 1) |->
            Trimmed(SubSeq(s, cut[i - 1] + 1, cut[i] - 1))]

\* the indices of the lines of ls that are not empty, in order
NonBlank(ls) == SelectSeq([i \in 1..Len(ls) |-> i], LAMBDA i : ls[i] # <<>>)

\* the lesser of two numbers
Least(a, b) == IF a <= b THEN a ELSE b

\* C13: the text clean_content returns has no "\r", no line that ends in
\* white space, no three blank lines in a row and no blank last line; its
\* non-blank lines are those of the text given (a line ending at "\r\n",
\* "\r" or "\n"), in order, less their trailing white space; a run of blank
\* or white-space-only lines before a non-blank line is kept up to two
\* lines; the empty text gives the empty text
C13_CleanContent ==
    Cleaned =>
        LET out == cleaned[1]
            ols == split(out)
            ils == TrimmedLines(content, LineEnds(content))
            onb == NonBlank(ols)
            inb == NonBlank(ils)
        IN  /\ \A i \in 1..Len(out) : out[i] # "\r"
            /\ \A n \in 1..Len(ols) :
                   ols[n] = <<>> \/ ols[n][Len(ols[n])] \notin {" ", "\t", "\n", "\r"}
            /\ \A n \in 1..(Len(ols) - 2) :
                   ~(ols[n] = <<>> /\ ols[n + 1] = <<>> /\ ols[n + 2] = <<>>)
            /\ out # <<>> => ols[Len(ols)] # <<>>
            /\ Len(onb) = Len(inb)
            /\ \A i \in 1..Len(onb) :
                   /\ ols[onb[i]] = ils[inb[i]]
                   /\ LET before == IF i = 1 THEN 0 ELSE onb[i - 1]
                          given == IF i = 1 THEN 0 ELSE inb[i - 1]
                      IN  onb[i] - before - 1 = Least(inb[i] - given - 1, 2)
            /\ inb = <<>> => out = <<>>
            /\ content = <<>> => out = <<>>

C13_Witness ==
    /\ Cleaned
    /\ content = <<"x", " ", "\r", "\n", "\n", " ", "\n", "\n", "\r", "x">>
    /\ cleaned = Some(<<"x", "\n", "\n", "\n", "x">>)

\* what a verdict says, the line number left out
Kind(v) ==
    IF v.is_valid THEN <<"valid">>
    ELSE SelectSeq(v.error[1],
                   LAMBDA t : t \notin {"0", "1", "2", "3", "4", "5", "6", "7", "8", "9"})

\* both texts have been validated
BothValidated == verdict # None /\ cleaned_verdict # None

\* the text given has a "\r" that no "\n" follows
BareCR == \E i \in 1..Len(content) :
              content[i] = "\r" /\ ~(i < Len(content) /\ content[i + 1] = "\n")

\* C12: validate says the same of the text clean_content returns
\* as of the text given, but for the line number: both valid, or both the
\* same error with the same block kinds
C12_SameVerdict ==
    BothValidated => Kind(cleaned_verdict[1]) = Kind(verdict[1])

\* what does hold: for a text given in which every "\r" is followed by
\* "\n", validate says the same of both texts, but for the line number
SameVerdictWithoutBareCR ==
    (BothValidated /\ ~BareCR) => Kind(cleaned_verdict[1]) = Kind(verdict[1])

-----------------------------------------------------------------------------
(* What extract_metadata returns for a document.                           *)

Extracted == op = "extract_metadata" /\ result = None

\* the names a field of the result is read from
ExtractNames(f) ==
    CASE f = "title" -> {<<"title">>, <<"t">>}
      [] f = "artist" -> {<<"artist">>, <<"a">>}
      [] OTHER -> {<<f>>}

\* the directives of D that name field f, as indices
Naming(D, f) == {i \in 1..Len(D) : D[i].name \in ExtractNames(f)}

\* the greatest number of S
Max(S) == CHOOSE n \in S : \A m \in S : m <= n

\* C14: each of title, artist, key, tempo and time is the value of the last
\* directive of the whole document that names it, by its name or its alias;
\* it is the empty string when that directive has no value, and unset when
\* no directive names it
C14_LastWins ==
    Extracted =>
        LET D == DIRECTIVE_REGEX_findall(content)
            md == metadata[1]
        IN  \A f \in {"title", "artist", "key", "tempo", "time"} :
                LET named == Naming(D, f)
                IN  /\ named = {} => md[f] = <<>>
                    /\ named # {} => md[f] = <<D[Max(named)].value>>

C14_Witness ==
    /\ Extracted
    /\ content = <<"{", "title", ":", "A", "}", "\n", "{", "t", ":", "B", "}", "\n",
                   "{", "a", "}", "{", "key", ":", "}">>
    /\ metadata[1].title = Some(<<"B">>)
    /\ metadata[1].artist = Some(<<>>)
    /\ metadata[1].key = Some(<<>>)
    /\ metadata[1].tempo = None

\* the integers a capo value of the documents may spell
CapoValues == (0 - 20)..20

\* value v, less the white space around it, is integer n in decimal digits,
\* with or without a sign
Spells(v, n) ==
    LET body == rstrip(lstrip(v))
    IN  \/ n >= 0 /\ body \in {digits(n), <<"+">> \o digits(n)}
        \/ n <= 0 /\ body = <<"-">> \o digits(0 - n)

\* C15: when the document has a capo directive, the last one decides: capo
\* is the integer its value spells, and 0 when it has no value, an empty
\* value or a value that spells no integer
C15_CapoDefault ==
    Extracted =>
        LET D == DIRECTIVE_REGEX_findall(content)
            named == Naming(D, "capo")
            v == D[Max(named)].value
        IN  named # {} =>
                /\ \A n \in CapoValues : Spells(v, n) => metadata[1].capo = <<n>>
                /\ (~\E n \in CapoValues : Spells(v, n)) => metadata[1].capo = <<0>>

C15_Witness ==
    /\ Extracted
    /\ content = <<"{", "capo", ":", " ", "-", "1", "2", " ", "}", "\n",
                   "{", "capo", ":", "3", "}", "\n", "{", "capo", ":", "x", "}">>
    /\ metadata[1].capo = Some(0)

\* C16 as stated: the capo of the result is never unset, whatever the
\* document
C16_CapoNeverUnset == Extracted => metadata[1].capo # <<>>

\* C16: the capo of the result is an integer, never unset, for a document
\* with a capo directive, and unset for a document without one
C16_CapoSetWhenNamed ==
    Extracted =>
        LET named == Naming(DIRECTIVE_REGEX_findall(content), "capo")
        IN  /\ named # {} => metadata[1].capo # <<>> /\ metadata[1].capo[1] \in Int
            /\ named = {} => metadata[1].capo = <<>>

C16_Witness ==
    /\ Extracted
    /\ content = <<"{", "Title", ":", "Z", "}", "{", "capo", " ", ":", "5", "}", "\n",
                   "{", "capo", "}", "\n", "x">>
    /\ metadata[1].capo = Some(0)
    /\ metadata[1].title = None

-----------------------------------------------------------------------------
(* What parse_line returns.                                                *)

Parsed == op = "parse_line"

\* the places of "[" from which the "]" at place j of s is reached over one
\* or more characters that are not "]"
Starts(s, j) ==
    {i \in 1..(j - 2) : s[i] = "[" /\ \A k \in (i + 1)..(j - 1) : s[k] # "]"}

\* the chord spans of s as pairs <<place of "[", place of "]">>: each "]"
\* closes the span of the leftmost "[" it is reached from
Spans(s) ==
    {<<Min(Starts(s, j)), j>> : j \in {k \in 1..Len(s) : s[k] = "]" /\ Starts(s, k) # {}}}

\* the spans of s from left to right
SpanSeq(s) ==
    LET S == Spans(s)
    IN  [n \in 1..Cardinality(S) |->
            CHOOSE p \in S : Cardinality({q \in S : q[2] < p[2]}) = n - 1]

\* the text segment of a stretch of s, none for an empty stretch
Stretch(s, from, to) ==
    IF from > to THEN <<>>
    ELSE <<[type |-> "text", content |-> SubSeq(s, from, to)]>>

RECURSIVE SegmentsOf(_, _, _)
\* the segments of s from span n on: the stretch before each span, the span
\* without its brackets, and the stretch after the last span
SegmentsOf(s, sp, n) ==
    LET from == IF n = 1 THEN 1 ELSE sp[n - 1][2] + 1
    IN  IF n > Len(sp) THEN Stretch(s, from, Len(s))
        ELSE Stretch(s, from, sp[n][1] - 1)
                 \o <<[type |-> "chord",
                       content |-> SubSeq(s, sp[n][1] + 1, sp[n][2] - 1)]>>
                 \o SegmentsOf(s, sp, n + 1)

\* C17: parse_line returns, left to right, one chord segment for each span
\* "[...]" of one or more characters other than "]", holding them without
\* the brackets, and one text segment for each non-empty stretch before the
\* first span, between two spans and after the last; no text segment is
\* empty, two spans side by side give two chord segments side by side, and
\* the empty line gives no segment
C17_Segments ==
    Parsed =>
        LET sp == SpanSeq(content)
            sg == segments[1]
        IN  /\ sg = SegmentsOf(content, sp, 1)
            /\ \A n \in 1..Len(sg) : sg[n].type = "text" => sg[n].content # <<>>
            /\ \A n \in 1..Len(sg) :
                   sg[n].type = "chord" =>
                       sg[n].content # <<>> /\ \A k \in 1..Len(sg[n].content) :
                                                   sg[n].content[k] # "]"
            /\ Cardinality({n \in 1..Len(sg) : sg[n].type = "chord"}) = Len(sp)
            /\ \A n \in 1..(Len(sp) - 1) :
                   sp[n + 1][1] = sp[n][2] + 1 =>
                       \E k \in 1..(Len(sg) - 1) :
                           /\ sg[k].type = "chord" /\ sg[k + 1].type = "chord"
                           /\ Cardinality({h \in 1..k : sg[h].type = "chord"}) = n
            /\ content = <<>> => sg = <<>>

C17_Witness ==
    /\ Parsed
    /\ content = <<"x", "[", "G", "]", "[", "[", "C", "]", "x">>
    /\ segments = Some(<<[type |-> "text", content |-> <<"x">>],
                         [type |-> "chord", content |-> <<"G">>],
                         [type |-> "chord", content |-> <<"[", "C">>],
                         [type |-> "text", content |-> <<"x">>]>>)

-----------------------------------------------------------------------------
(* The names the three operations know.                                    *)

\* the last line of the document, one directive
LastLine == InputLines[Len(InputLines)]

\* the name of that directive: what stands between "{" and the first ":" or
\* "}" of the line
LastName ==
    LET line == LastLine
        stop == Min({i \in 1..Len(line) : line[i] \in {":", "}"}})
    IN  SubSeq(line, 2, stop - 1)

\* the stack the lines before the last line leave
LeadStack ==
    IF Len(InputLines) = 1 THEN <<>>
    ELSE LET lead == SubSeq(InputLines[1], 2, 2)
         IN  <<CHOOSE kind \in BlockKinds : lead \in Opens(kind)>>

\* validate has examined the last line
LastLineExamined == op \in {"validate", "validate done"} /\ line_num = Len(InputLines)

\* C18: a directive whose name is, letter for letter, one of soc,
\* start_of_chorus, chorus (and so for verse, bridge, tab) pushes its kind,
\* with a value or without; one whose name is one of eoc, end_of_chorus
\* (and so on) pops its kind; a directive of any other name, one that
\* differs in case or has spaces around it included, leaves the stack as it
\* was, and one whose name is not, letter for letter, a name of a field
\* sets no field in extract_metadata and makes its line no metadata line
\* in inject_metadata
C18_NamesExact ==
    LET name == LastName
        lead == LeadStack
    IN  /\ LastLineExamined =>
              /\ \A kind \in BlockKinds :
                     /\ name \in Opens(kind) => open_blocks = Append(lead, kind)
                     /\ (name \in Closes(kind) /\ lead = <<kind>>) => open_blocks = <<>>
                     /\ (name \in Closes(kind) /\ lead # <<kind>>) =>
                            verdict = Some(Invalid(UnexpectedError(Len(InputLines), kind)))
              /\ (\A kind \in BlockKinds : name \notin Opens(kind) \cup Closes(kind)) =>
                     /\ open_blocks = lead
                     /\ op = "validate" => verdict = None
                     /\ op = "validate done" =>
                            verdict = Some(IF lead = <<>> THEN Valid
                                           ELSE Invalid(UnclosedError(lead)))
        /\ Extracted =>
              \A f \in {"title", "artist", "capo", "key", "tempo", "time"} :
                  metadata[1][f] # <<>> <=>
                      name \in (IF f = "title" THEN {<<"title">>, <<"t">>}
                                ELSE IF f = "artist" THEN {<<"artist">>, <<"a">>}
                                ELSE {<<f>>})
        /\ Merged =>
              (name \notin {<<"title">>, <<"t">>, <<"artist">>, <<"a">>, <<"capo">>, <<"key">>}
                  <=> OutputLines =
                         << <<"{", "title", ":", "X", "}">>, <<"{", "artist", ":", "A", "}">>,
                            <<"{", "capo", ":", "0", "}">>, <<"{", "key", ":", "G", "}">>,
                            <<>> >> \o InputLines)

C18_Witness ==
    /\ LastLineExamined
    /\ content = <<"{", "start_of_verse", "}", "\n", "{", " ", "eov", " ", ":", "5", "}">>
    /\ open_blocks = <<"verse">>
    /\ verdict = None

-----------------------------------------------------------------------------
(* What SongsService stores.                                               *)

\* the last of a sequence
Last(s) == s[Len(s)]

\* the step is a call of create_song
Creates == calls' # calls /\ Last(calls').call = "create_song"

\* what a call of create_song does
CreateStep ==
    LET a == Last(calls')
        text == clean_content(a.content_chordpro)
        v == validate(text)
        merged == inject_metadata(text, Some(a.title),
                                  IF a.author \in {None, Some(<<>>)} THEN None
                                  ELSE a.author,
                                  Some(a.capo), None)
    IN  IF v.is_valid \/ IsUnclosed(v)
        THEN /\ raised' = None
             /\ Len(songs') = Len(songs) + 1
             /\ SubSeq(songs', 1, Len(songs)) = songs
             /\ Last(songs').content_chordpro = merged
             /\ versions' = Append(versions,
                                   [song_id |-> Len(songs'),
                                    content_chordpro |-> merged,
                                    capo |-> a.capo,
                                    transpose_semitones |-> a.transpose_semitones])
        ELSE /\ raised' # None
             /\ raised'[1][1] = "Invalid ChordPro content: "
             /\ songs' = songs
             /\ versions' = versions

\* C19: create_song stores the content cleaned, then merged with title,
\* author and capo, in one new song and one version of it, when validate
\* accepts the cleaned content or gives "Unclosed block(s)" for it, and
\* raises ValueError and stores nothing when validate gives another error
\* (brackets, a close of no block, empty content)
C19_CreateStored == [][Creates => CreateStep]_vars

C19_Witness ==
    /\ calls # <<>> /\ Last(calls).call = "create_song"
    /\ Last(calls).content_chordpro = <<"{", "soc", "}", "\r", "\n", "x", " ">>
    /\ raised = None
    /\ Len(songs) = 1
    /\ songs[1].content_chordpro =
           <<"{", "title", ":", "X", "}", "\n", "{", "capo", ":", "0", "}", "\n", "\n",
             "{", "soc", "}", "\n", "x">>
    /\ versions = <<[song_id |-> 1, content_chordpro |-> songs[1].content_chordpro,
                     capo |-> 0, transpose_semitones |-> 0]>>

\* the last call was update_song, of a song there is, with content given,
\* and it raised nothing: it wrote content_chordpro
UpdateWrote ==
    /\ calls # <<>> /\ Last(calls).call = "update_song"
    /\ Last(calls).song_id \in 1..Len(songs)
    /\ Last(calls).content_chordpro # None
    /\ raised = None

\* C20: the content update_song wrote is the content given, cleaned, then
\* accepted by validate or found to have unclosed blocks only, then merged
\* with the song's title, author and capo
C20_UpdateValidated ==
    UpdateWrote =>
        LET a == Last(calls)
            song == songs[a.song_id]
            text == clean_content(a.content_chordpro[1])
            v == validate(text)
        IN  /\ v.is_valid \/ IsUnclosed(v)
            /\ song.content_chordpro =
                   inject_metadata(text, Some(song.title), song.author,
                                   Some(song.capo), None)

-----------------------------------------------------------------------------
(* Calls of the engine that run side by side.                              *)

RECURSIVE stack_after(_, _, _)
\* the stack a call of validate alone has after n lines of ls, from stack
\* st before line m
stack_after(ls, n, st) ==
    IF n = 0 THEN st
    ELSE LET before == stack_after(ls, n - 1, st)
         IN  validate_directives(before, DIRECTIVE_REGEX_findall(ls[n]), 1).open_blocks

\* what a step leaves of the calls: no call's input is changed, the stack
\* of a call is the one its own lines give, and a call that has returned
\* has returned what validate returns for its input alone
AsAlone ==
    /\ DOMAIN threads' = DOMAIN threads
    /\ \A t \in DOMAIN threads :
           LET f == threads'[t]
           IN  /\ f.content = threads[t].content
               /\ f.pc = "loop" =>
                      /\ f.lines = split(f.content)
                      /\ f.open_blocks = stack_after(f.lines, f.line_num, <<>>)
               /\ f.pc = "done" <=> f.verdict # None
               /\ f.verdict # None => f.verdict[1] = validate(f.content)
    /\ content' = content
    /\ metadata' # None => metadata'[1] = extract_metadata(content)

\* C21: however the steps of several calls of validate, and a call of
\* extract_metadata, follow one another, every call keeps its own block
\* stack, returns what it returns when it runs alone, and leaves its input
\* as it was
C21_Stateless == [][AsAlone]_vars

C21_Witness ==
    /\ threads[1].content = <<"{", "soc", "}", "\n", "x", "\n", "{", "eoc", "}">>
    /\ threads[1].pc = "loop" /\ threads[1].line_num = 2
    /\ threads[1].open_blocks = <<"chorus">>
    /\ threads[2].verdict = Some(Invalid(<<"Line ", "1", ": Unexpected end_of_", "chorus">>))
    /\ metadata # None

-----------------------------------------------------------------------------
(* The merged document, validated and read back.                           *)

\* C22: when validate accepts the document given, it accepts the document
\* inject_metadata returns for it, whatever title, artist, capo and key
\* (without brackets and braces) are merged
C22_MergeKeepsValid ==
    (op = "validate merged" /\ validate(content) = Valid) => verdict = Some(Valid)

\* C23: extract_metadata reads back from the merged document, whatever the
\* document given, every title, artist and key merged that is not empty
\* and has no brace, and the capo merged
C23_RoundTrip ==
    (op = "extract_metadata" /\ result # None) =>
        /\ \A f \in {"title", "artist", "key"} :
               (Supplied(f) /\ NoBrace(Arg(f)[1])) => metadata[1][f] = Arg(f)
        /\ capo # None => metadata[1].capo = capo

-----------------------------------------------------------------------------
(* The version history.                                                    *)

\* the step is a call of update_song that found its song and raised nothing
Updates ==
    /\ calls' # calls /\ Last(calls').call = "update_song"
    /\ Last(calls').song_id \in 1..Len(songs)
    /\ raised' = None

\* C24: a call of update_song that leaves the song with another
\* content_chordpro than it had has added a version with the content, capo
\* and transpose_semitones the song had
C24_SnapshotBeforeChange ==
    [][LET id == Last(calls').song_id
       IN  (Updates /\ songs'[id].content_chordpro # songs[id].content_chordpro) =>
               versions' = Append(versions,
                                  [song_id |-> id,
                                   content_chordpro |-> songs[id].content_chordpro,
                                   capo |-> songs[id].capo,
                                   transpose_semitones |->
                                       songs[id].transpose_semitones])]_vars

\* the step is a call of restore_version
Restores == calls' # calls /\ Last(calls').call = "restore_version"

\* the song of the call is there and, a user being given, is that user's
Visible(a) ==
    /\ a.song_id \in 1..Len(songs)
    /\ a.user_id # None => songs[a.song_id].user_id = a.user_id

\* the version of the call is there and is a version of the song of the call
Belongs(a) ==
    /\ a.version_id \in 1..Len(versions)
    /\ versions[a.version_id].song_id = a.song_id

\* what the claim says of a call of restore_version
RestoreStep ==
    LET a == Last(calls')
        id == a.song_id
    IN  IF Visible(a) /\ Belongs(a)
        THEN /\ op' = "restore_version"
             /\ Len(versions') = Len(versions) + 1
             /\ \A i \in 1..Len(versions) : versions'[i] = versions[i]
             /\ Last(versions') =
                    [song_id |-> id,
                     content_chordpro |-> songs[id].content_chordpro,
                     capo |-> songs[id].capo,
                     transpose_semitones |-> songs[id].transpose_semitones]
             /\ songs'[id].content_chordpro =
                    versions[a.version_id].content_chordpro
             /\ songs'[id].capo = versions[a.version_id].capo
             /\ songs'[id].transpose_semitones =
                    versions[a.version_id].transpose_semitones
             /\ Len(songs') = Len(songs)
             /\ \A j \in 1..Len(songs) : j # id => songs'[j] = songs[j]
        ELSE /\ op' = "restore_version: None"
             /\ songs' = songs
             /\ versions' = versions

\* C25: a call of restore_version for a song that is there and visible and
\* a version of that song adds one version holding the song's content, capo
\* and transpose_semitones, gives the song those of the chosen version and
\* leaves the other versions as they were; any other call returns None and
\* leaves songs and versions as they were
C25_RestoreStored == [][Restores => RestoreStep]_vars

\* the first song, updated to another content and capo, has been given back
\* what its first version holds, and what it held is the version added last
C25_Witness ==
    /\ op = "restore_version"
    /\ Len(versions) = 4
    /\ Last(calls) = [call |-> "restore_version", song_id |-> 1,
                      version_id |-> 1, user_id |-> None]
    /\ songs[1].content_chordpro = versions[1].content_chordpro
    /\ songs[1].capo = 0
    /\ Last(versions).capo = 3
    /\ Last(versions).content_chordpro # songs[1].content_chordpro

-----------------------------------------------------------------------------
(* parse_line gives the line back.                                         *)

\* a segment as it was written in the line
Written(segment) ==
    IF segment.type = "chord" THEN <<"[">> \o segment.content \o <<"]">>
    ELSE segment.content

\* C26: the segments parse_line returns, written one after the other, a
\* text segment as its content and a chord segment between "[" and "]",
\* are the line; no segment has empty content, and no text segment follows
\* a text segment
C26_Lossless ==
    Parsed =>
        LET sg == segments[1]
        IN  /\ flatten([n \in 1..Len(sg) |-> Written(sg[n])]) = content
            /\ \A n \in 1..Len(sg) : sg[n].content # <<>>
            /\ \A n \in 1..(Len(sg) - 1) :
                   ~(sg[n].type = "text" /\ sg[n + 1].type = "text")

\* a line with a lone "]", a lone "[" taken into the chord, and text after
C26_Witness ==
    /\ Parsed
    /\ content = <<"]", "[", "[", "G", "]", "x">>
    /\ Len(segments[1]) = 3
    /\ segments[1][2] = [type |-> "chord", content |-> <<"[", "G">>]

=============================================================================
